---- MODULE Spec2Model ----
(***************************************************************************)
(* A model of the CryptoJS 3.x core: WordArray (core.js), the Hash         *)
(* template (core.js), the cipher engine, CBC mode, PKCS5 padding, the     *)
(* OpenSSL format, the OpenSSL KDF wrapper and PBE (cipher-core.js), and   *)
(* HMAC (algo-hmac.js).                                                    *)
(*                                                                         *)
(* JavaScript objects live in a heap: heap.objs holds the WordArray        *)
(* objects (a reference to a words array and sigBytes), heap.arrs holds    *)
(* the arrays.  A reference is an index into the sequence, so two objects  *)
(* share storage exactly when they hold the same array reference.          *)
(* heap.params holds the CipherParams objects; a field that is undefined   *)
(* holds 0, which is no reference.  heap.hashed lists, in order, the       *)
(* blocks that were handed to the hash primitive's block function.         *)
(* Words are kept as unsigned 32-bit values; JavaScript keeps the same     *)
(* bit patterns as signed values, and every use in the modelled code goes  *)
(* through a bit operator or compares against a value below 2^31.          *)
(***************************************************************************)
EXTENDS Integers, Sequences, FiniteSets, TLC

VARIABLES heap, pc, data, blockSize, orig,
          message, key, iv, ciphertext, plaintext, iv2, runs, pre,
          params, str, parsed,
          password, input, encResult, rtResult, derived,
          hasher, digests, nOps, hmac, hkey, pads, fed, mark

padVars == <<data>>
cipherVars == <<message, key, iv, ciphertext, plaintext, iv2, runs>>
formatVars == <<params, str, parsed>>
pbeVars == <<password, input, encResult, rtResult, derived>>
hashVars == <<hasher, digests, nOps, hmac, hkey, pads, fed, mark>>
vars == <<heap, pc, blockSize, orig, pre, padVars, cipherVars, formatVars, pbeVars, hashVars>>

(***************************************************************************)
(* Bounds of the model.                                                    *)
(***************************************************************************)
MaxWords == 2
MaxBlockSize == 2

(***************************************************************************)
(* 32-bit arithmetic of the JavaScript bit operators.  A word is the       *)
(* tuple of its four bytes, most significant first, so that the full       *)
(* 32-bit width is kept.                                                   *)
(***************************************************************************)
RECURSIVE And8(_, _, _)
And8(a, b, n) ==
  IF n = 0 \/ a = 0 \/ b = 0 THEN 0
  ELSE (a % 2) * (b % 2) + 2 * And8(a \div 2, b \div 2, n - 1)

RECURSIVE Or8(_, _, _)
Or8(a, b, n) ==
  IF n = 0 THEN 0
  ELSE IF a = 0 THEN b
  ELSE IF b = 0 THEN a
  ELSE (IF (a % 2) + (b % 2) > 0 THEN 1 ELSE 0) + 2 * Or8(a \div 2, b \div 2, n - 1)

RECURSIVE Xor8(_, _, _)
Xor8(a, b, n) ==
  IF n = 0 THEN 0
  ELSE IF a = 0 THEN b
  ELSE IF b = 0 THEN a
  ELSE (((a % 2) + (b % 2)) % 2) + 2 * Xor8(a \div 2, b \div 2, n - 1)

Word0 == <<0, 0, 0, 0>>

\* ToInt32 of a number 0 <= n < 2^31, as a word.
ToWord(n) == <<(n \div 16777216) % 256, (n \div 65536) % 256, (n \div 256) % 256, n % 256>>

\* The number held by a word below 2^31.
ToNum(w) == ((w[1] * 256 + w[2]) * 256 + w[3]) * 256 + w[4]

BitAnd(a, b) == <<And8(a[1], b[1], 8), And8(a[2], b[2], 8), And8(a[3], b[3], 8), And8(a[4], b[4], 8)>>
BitOr(a, b) == <<Or8(a[1], b[1], 8), Or8(a[2], b[2], 8), Or8(a[3], b[3], 8), Or8(a[4], b[4], 8)>>
BitXor(a, b) == <<Xor8(a[1], b[1], 8), Xor8(a[2], b[2], 8), Xor8(a[3], b[3], 8), Xor8(a[4], b[4], 8)>>

WordByte(w, k) == IF k >= 1 /\ k <= 4 THEN w[k] ELSE 0

\* w << n and w >>> n: the shift count is taken modulo 32.
ShiftLeft(w, n) ==
  LET q == (n % 32) \div 8
      r == n % 8
      byte(k) == ((WordByte(w, k + q) * (2 ^ r)) % 256)
                   + (WordByte(w, k + q + 1) \div (2 ^ (8 - r)))
  IN  <<byte(1), byte(2), byte(3), byte(4)>>

URShift(w, n) ==
  LET q == (n % 32) \div 8
      r == n % 8
      byte(k) == (WordByte(w, k - q) \div (2 ^ r))
                   + ((WordByte(w, k - q - 1) * (2 ^ (8 - r))) % 256)
  IN  <<byte(1), byte(2), byte(3), byte(4)>>

\* x >>> 2 of a number x with |x| < 2^31 (an array index): ToUint32(x) div 4.
Index2(x) == IF x >= 0 THEN x \div 4 ELSE 1073741824 + (x \div 4)

\* a % b of JavaScript: the result has the sign of the dividend.
JsMod(a, b) == IF a >= 0 THEN a % b ELSE 0 - ((0 - a) % b)

\* Math.ceil(x / 4)
CeilDiv4(x) == IF x >= 0 THEN (x + 3) \div 4 ELSE 0 - ((0 - x) \div 4)

(***************************************************************************)
(* JavaScript arrays of words.  Index i of the source is position i + 1.   *)
(* A read past the end yields undefined, which the bit operators turn      *)
(* into 0; a hole left by a write past the end or by a longer length       *)
(* reads the same way and is kept as 0.                                    *)
(***************************************************************************)
\* An array given element by element, as a sequence value.
ArrayOf(f) == f \o <<>>

GetWord(ws, i) == IF i >= 0 /\ i < Len(ws) THEN ws[i + 1] ELSE Word0

SetWord(ws, i, v) ==
  IF i < Len(ws) THEN [ws EXCEPT ![i + 1] = v]
  ELSE ArrayOf([k \in 1..(i + 1) |-> IF k <= Len(ws) THEN ws[k] ELSE IF k = i + 1 THEN v ELSE Word0])

\* words.length = n
SetLength(ws, n) == ArrayOf([k \in 1..n |-> IF k <= Len(ws) THEN ws[k] ELSE Word0])

\* words.slice(from, to) and words.splice(0, n)
Slice(ws, from, to) ==
  LET lo == IF from < Len(ws) THEN from ELSE Len(ws)
      hi == IF to < Len(ws) THEN to ELSE Len(ws)
  IN  IF hi <= lo THEN <<>> ELSE SubSeq(ws, lo + 1, hi)

Splice0(ws, n) == Slice(ws, n, Len(ws))

(***************************************************************************)
(* The heap.                                                               *)
(***************************************************************************)
EmptyHeap == [objs |-> <<>>, arrs |-> <<>>, params |-> <<>>, hashed |-> <<>>]

NewArr(h, ws) == [h EXCEPT !.arrs = Append(@, ws)]
LastArr(h) == Len(h.arrs)
LastObj(h) == Len(h.objs)

WordsRef(h, o) == h.objs[o].words
Words(h, o) == h.arrs[h.objs[o].words]
SigBytes(h, o) == h.objs[o].sigBytes

SetArr(h, a, ws) == [h EXCEPT !.arrs[a] = ws]
SetSigBytes(h, o, n) == [h EXCEPT !.objs[o].sigBytes = n]

\* (words[i >>> 2] >>> (24 - (i % 4) * 8)) & 0xff
ByteAt(ws, i) ==
  ToNum(BitAnd(URShift(GetWord(ws, Index2(i)), 24 - JsMod(i, 4) * 8), ToWord(255)))

\* The significant bytes of a buffer, as a sequence.
Bytes(ws, sigBytes) ==
  IF sigBytes <= 0 THEN <<>> ELSE ArrayOf([i \in 1..sigBytes |-> ByteAt(ws, i - 1)])
BufBytes(h, o) == Bytes(Words(h, o), SigBytes(h, o))

(***************************************************************************)
(* WordArray (core.js).                                                    *)
(***************************************************************************)
\* WordArray.create(words, sigBytes): the object keeps the array it is given.
WordArray_init(h, a, sigBytes) ==
  [h EXCEPT !.objs = Append(@, [words |-> a, sigBytes |-> sigBytes])]

\* WordArray.create(words): sigBytes = words.length * 4
WordArray_create(h, a) == WordArray_init(h, a, Len(h.arrs[a]) * 4)

\* WordArray.create(): words = []
WordArray_createEmpty(h) == WordArray_create(NewArr(h, <<>>), Len(h.arrs) + 1)

clamp_noMask(h, o) ==
  SetArr(h, WordsRef(h, o), SetLength(Words(h, o), CeilDiv4(SigBytes(h, o))))

clamp(h, o) ==
  LET words == Words(h, o)
      sigBytes == SigBytes(h, o)
      idx == Index2(sigBytes)
      mask == ShiftLeft(<<255, 255, 255, 255>>, 32 - JsMod(sigBytes, 4) * 8)
      masked == SetWord(words, idx, BitAnd(GetWord(words, idx), mask))
  IN  SetArr(h, WordsRef(h, o), SetLength(masked, CeilDiv4(sigBytes)))

RECURSIVE concatLoop(_, _, _, _, _, _)
concatLoop(h, thisWords, thatWords, i, thatSigBytes, thisSigBytes) ==
  IF i >= thatSigBytes THEN [heap |-> h, thisSigBytes |-> thisSigBytes]
  ELSE
    LET thatByte == ByteAt(h.arrs[thatWords], i)
        idx == Index2(thisSigBytes)
        w == BitOr(GetWord(h.arrs[thisWords], idx),
                   ShiftLeft(ToWord(thatByte), 24 - JsMod(thisSigBytes, 4) * 8))
    IN  concatLoop(SetArr(h, thisWords, SetWord(h.arrs[thisWords], idx, w)),
                   thisWords, thatWords, i + 1, thatSigBytes, thisSigBytes + 1)

concat_noClamp(h, this, that) ==
  LET r == concatLoop(h, WordsRef(h, this), WordsRef(h, that), 0, SigBytes(h, that), SigBytes(h, this))
  IN  SetSigBytes(r.heap, this, r.thisSigBytes)

concat(h, this, that) ==
  LET thisWords == WordsRef(h, this)
      thatWords == WordsRef(h, that)
      thisSigBytes == SigBytes(h, this)
      thatSigBytes == SigBytes(h, that)
      r == concatLoop(clamp(h, this), thisWords, thatWords, 0, thatSigBytes, thisSigBytes)
  IN  SetSigBytes(r.heap, this, r.thisSigBytes)

\* Base.clone copies the own properties; WordArray.clone then replaces
\* words by words.slice(0).  The clone is the last object of the new heap.
clone_sharedWords(h, o) == WordArray_init(h, WordsRef(h, o), SigBytes(h, o))

clone(h, o) ==
  WordArray_init(NewArr(h, Words(h, o)), Len(h.arrs) + 1, SigBytes(h, o))

(***************************************************************************)
(* PKCS5 padding (cipher-core.js).                                         *)
(***************************************************************************)
nPaddingBytes_zeroWhenAligned(sigBytes, blockSizeBytes) ==
  (blockSizeBytes - JsMod(sigBytes, blockSizeBytes)) % blockSizeBytes

\* (blockSizeBytes - data.sigBytes % blockSizeBytes) || blockSizeBytes
nPaddingBytes(sigBytes, blockSizeBytes) ==
  LET n == blockSizeBytes - JsMod(sigBytes, blockSizeBytes)
  IN  IF n = 0 THEN blockSizeBytes ELSE n

paddingWord(n) ==
  BitOr(BitOr(ShiftLeft(ToWord(n), 24), ShiftLeft(ToWord(n), 16)),
        BitOr(ShiftLeft(ToWord(n), 8), ToWord(n)))

\* for (var i = 0; i < nPaddingBytes; i += 4) paddingWords.push(paddingWord)
paddingWords(n) == ArrayOf([k \in 1..CeilDiv4(n) |-> paddingWord(n)])

PKCS5_pad(h, d, bs) ==
  LET blockSizeBytes == bs * 4
      n == nPaddingBytes(SigBytes(h, d), blockSizeBytes)
      h1 == WordArray_createEmpty(h)
      padding == LastObj(h1)
      h2 == SetSigBytes(SetArr(h1, WordsRef(h1, padding), paddingWords(n)), padding, n)
  IN  concat(h2, d, padding)

PKCS5_unpad(h, d) ==
  LET n == ToNum(BitAnd(GetWord(Words(h, d), Index2(SigBytes(h, d) - 1)), ToWord(255)))
  IN  SetSigBytes(h, d, SigBytes(h, d) - n)

(***************************************************************************)
(* A block cipher primitive.  cipher-core.js leaves _init, _encryptBlock   *)
(* and _decryptBlock to the concrete cipher; this one follows the          *)
(* primitive contract: _init keeps the key's significant words,            *)
(* _encryptBlock                                                           *)
(* transforms blockSize words in place and _decryptBlock inverts it.       *)
(* Each byte is added to a key byte, and the words of the block rotate.    *)
(***************************************************************************)
Cipher_init(h, k) == Slice(Words(h, k), 0, SigBytes(h, k) \div 4)

keyWord(ks, i) == IF Len(ks) = 0 THEN Word0 ELSE ks[(i % Len(ks)) + 1]

encryptWord(w, kw) ==
  <<(w[1] + kw[1] + 1) % 256, (w[2] + kw[2] + 1) % 256,
    (w[3] + kw[3] + 1) % 256, (w[4] + kw[4] + 1) % 256>>
decryptWord(w, kw) ==
  <<(w[1] + 511 - kw[1]) % 256, (w[2] + 511 - kw[2]) % 256,
    (w[3] + 511 - kw[3]) % 256, (w[4] + 511 - kw[4]) % 256>>

encryptBlock(h, words, offset, ks, bs) ==
  LET ws == h.arrs[words]
      out == [k \in 1..Len(ws) |->
                IF k > offset /\ k <= offset + bs
                THEN encryptWord(ws[offset + ((k - offset) % bs) + 1], keyWord(ks, (k - offset) % bs))
                ELSE ws[k]]
  IN  SetArr(h, words, ArrayOf(out))

decryptBlock(h, words, offset, ks, bs) ==
  LET ws == h.arrs[words]
      out == [k \in 1..Len(ws) |->
                IF k > offset /\ k <= offset + bs
                THEN LET j == (k - offset - 1 + bs - 1) % bs
                     IN  decryptWord(ws[offset + j + 1], keyWord(ks, (j + 1) % bs))
                ELSE ws[k]]
  IN  SetArr(h, words, ArrayOf(out))

(***************************************************************************)
(* CBC mode (cipher-core.js).                                              *)
(***************************************************************************)
RECURSIVE xorLoop(_, _, _, _, _, _, _)
\* for (i = from; i < blockSize; i++) dataWords[dst + i] ^= srcWords[src + i]
xorLoop(h, dataWords, dst, srcWords, src, i, bs) ==
  IF i >= bs THEN h
  ELSE LET w == BitXor(GetWord(h.arrs[dataWords], dst + i), GetWord(h.arrs[srcWords], src + i))
       IN  xorLoop(SetArr(h, dataWords, SetWord(h.arrs[dataWords], dst + i, w)),
                   dataWords, dst, srcWords, src, i + 1, bs)

xorBlock_alwaysIv(h, dataWords, ivWords, offset, bs) ==
  xorLoop(h, dataWords, offset, ivWords, 0, 0, bs)

xorBlock(h, dataWords, ivWords, offset, bs) ==
  IF offset = 0
  THEN xorLoop(h, dataWords, 0, ivWords, 0, 0, bs)
  ELSE xorLoop(h, dataWords, offset, dataWords, offset - bs, 0, bs)

RECURSIVE CBC_encryptLoop(_, _, _, _, _, _, _)
CBC_encryptLoop(h, messageWords, messageWordsLength, ivWords, offset, ks, bs) ==
  IF offset >= messageWordsLength THEN h
  ELSE CBC_encryptLoop(
         encryptBlock(xorBlock(h, messageWords, ivWords, offset, bs), messageWords, offset, ks, bs),
         messageWords, messageWordsLength, ivWords, offset + bs, ks, bs)

CBC_encrypt(h, m, ks, bs, v) ==
  CBC_encryptLoop(h, WordsRef(h, m), Len(Words(h, m)), WordsRef(h, v), 0, ks, bs)

RECURSIVE CBC_decryptLoop_xorFirst(_, _, _, _, _, _)
CBC_decryptLoop_xorFirst(h, ciphertextWords, ivWords, offset, ks, bs) ==
  IF offset < 0 THEN h
  ELSE CBC_decryptLoop_xorFirst(
         decryptBlock(xorBlock(h, ciphertextWords, ivWords, offset, bs), ciphertextWords, offset, ks, bs),
         ciphertextWords, ivWords, offset - bs, ks, bs)

RECURSIVE CBC_decryptLoop(_, _, _, _, _, _)
CBC_decryptLoop(h, ciphertextWords, ivWords, offset, ks, bs) ==
  IF offset < 0 THEN h
  ELSE CBC_decryptLoop(
         xorBlock(decryptBlock(h, ciphertextWords, offset, ks, bs), ciphertextWords, ivWords, offset, bs),
         ciphertextWords, ivWords, offset - bs, ks, bs)

RECURSIVE CBC_decryptForward(_, _, _, _, _, _)
CBC_decryptForward(h, ciphertextWords, ivWords, offset, ks, bs) ==
  IF offset >= Len(h.arrs[ciphertextWords]) THEN h
  ELSE CBC_decryptForward(
         xorBlock(decryptBlock(h, ciphertextWords, offset, ks, bs), ciphertextWords, ivWords, offset, bs),
         ciphertextWords, ivWords, offset + bs, ks, bs)

CBC_decrypt_firstToLast(h, c, ks, bs, v) ==
  CBC_decryptForward(h, WordsRef(h, c), WordsRef(h, v), 0, ks, bs)

CBC_decrypt(h, c, ks, bs, v) ==
  CBC_decryptLoop(h, WordsRef(h, c), WordsRef(h, v), Len(Words(h, c)) - bs, ks, bs)

(***************************************************************************)
(* The cipher engine (cipher-core.js): Cipher.encrypt / decrypt with the   *)
(* Block template and its default configuration (CBC, PKCS5).  The         *)
(* returned buffer is the last object of the heap after the clone, whose   *)
(* reference the result records.                                           *)
(***************************************************************************)
Block_doEncrypt(h, m, k, v, bs) ==
  LET h1 == PKCS5_pad(h, m, bs)
      ks == Cipher_init(h1, k)
  IN  CBC_encrypt(h1, m, ks, bs, v)

Block_doDecrypt(h, c, k, v, bs) ==
  LET ks == Cipher_init(h, k)
      h1 == CBC_decrypt(h, c, ks, bs, v)
  IN  PKCS5_unpad(h1, c)

Cipher_encrypt(h, m, k, v, bs) ==
  LET h1 == clone(h, m)
      copy == LastObj(h1)
  IN  [heap |-> Block_doEncrypt(h1, copy, k, v, bs), ret |-> copy]

Cipher_decrypt(h, c, k, v, bs) ==
  LET h1 == clone(h, c)
      copy == LastObj(h1)
  IN  [heap |-> Block_doDecrypt(h1, copy, k, v, bs), ret |-> copy]

(***************************************************************************)
(* The Base64 codec, an external collaborator of cipher-core.js: a string  *)
(* is the sequence of its 6-bit symbols, 64 standing for the '=' padding.  *)
(* toString encodes the significant bytes of a buffer; fromString creates  *)
(* a buffer holding exactly the decoded bytes.                             *)
(***************************************************************************)
ByteOr0(bs, i) == IF i >= 0 /\ i < Len(bs) THEN bs[i + 1] ELSE 0

B64Sextet(bs, j) ==
  LET byteIdx == (6 * j) \div 8
      off == (6 * j) % 8
      two == ByteOr0(bs, byteIdx) * 256 + ByteOr0(bs, byteIdx + 1)
  IN  (two \div (2 ^ (10 - off))) % 64

Base64_toString(bs) ==
  LET nchars == 4 * ((Len(bs) + 2) \div 3)
      nsig == (Len(bs) * 8 + 5) \div 6
  IN  ArrayOf([j \in 1..nchars |-> IF j <= nsig THEN B64Sextet(bs, j - 1) ELSE 64])

B64Byte(sx, i) ==
  LET sIdx == (8 * i) \div 6
      off == (8 * i) % 6
      twelve == ByteOr0(sx, sIdx) * 64 + ByteOr0(sx, sIdx + 1)
  IN  (twelve \div (2 ^ (4 - off))) % 256

Base64_decode(s) ==
  LET sx == SelectSeq(s, LAMBDA c : c # 64)
  IN  ArrayOf([i \in 1..((Len(sx) * 6) \div 8) |-> B64Byte(sx, i - 1)])

\* The words that hold a byte sequence, zero beyond its end.
BytesToWords(bs) ==
  ArrayOf([k \in 1..CeilDiv4(Len(bs)) |->
     <<ByteOr0(bs, 4 * k - 4), ByteOr0(bs, 4 * k - 3), ByteOr0(bs, 4 * k - 2), ByteOr0(bs, 4 * k - 1)>>])

Base64_fromString(h, s) ==
  LET bs == Base64_decode(s)
  IN  WordArray_init(NewArr(h, BytesToWords(bs)), Len(h.arrs) + 1, Len(bs))

(***************************************************************************)
(* CipherParams and the OpenSSL format (cipher-core.js).                   *)
(***************************************************************************)
NoParams == [rawCiphertext |-> 0, key |-> 0, iv |-> 0, salt |-> 0, formatter |-> 0]

\* C_lib_CipherParams.create(fields): the new object is the last of heap.params.
CipherParams_create(h, fields) == [h EXCEPT !.params = Append(@, fields)]
LastParams(h) == Len(h.params)

\* 0x53616c74, 0x65645f5f
Magic0 == <<83, 97, 108, 116>>
Magic1 == <<101, 100, 95, 95>>

OpenSSL_toString_concatIntoSalt(h, p) ==
  LET rawCiphertext == h.params[p].rawCiphertext
      salt == h.params[p].salt
  IN  IF salt # 0
      THEN LET h1 == WordArray_create(NewArr(h, <<Magic0, Magic1>>), Len(h.arrs) + 1)
               openSSLStr == LastObj(h1)
               h3 == concat(concat(h1, salt, rawCiphertext), openSSLStr, salt)
           IN  [heap |-> h3, ret |-> Base64_toString(BufBytes(h3, openSSLStr))]
      ELSE [heap |-> h, ret |-> Base64_toString(BufBytes(h, rawCiphertext))]

OpenSSL_toString(h, p) ==
  LET rawCiphertext == h.params[p].rawCiphertext
      salt == h.params[p].salt
  IN  IF salt # 0
      THEN LET h1 == WordArray_create(NewArr(h, <<Magic0, Magic1>>), Len(h.arrs) + 1)
               openSSLStr == LastObj(h1)
               h2 == concat(concat(h1, openSSLStr, salt), openSSLStr, rawCiphertext)
           IN  [heap |-> h2, ret |-> Base64_toString(BufBytes(h2, openSSLStr))]
      ELSE [heap |-> h, ret |-> Base64_toString(BufBytes(h, rawCiphertext))]

OpenSSL_fromString_noSaltTest(h, s) ==
  LET h1 == Base64_fromString(h, s)
  IN  CipherParams_create(h1, [NoParams EXCEPT !.rawCiphertext = LastObj(h1)])

OpenSSL_fromString(h, s) ==
  LET h1 == Base64_fromString(h, s)
      rawCiphertext == LastObj(h1)
      rawCiphertextWords == WordsRef(h1, rawCiphertext)
      ws == h1.arrs[rawCiphertextWords]
  IN  IF Len(ws) >= 2 /\ ws[1] = Magic0 /\ ws[2] = Magic1
      THEN LET h2 == WordArray_create(NewArr(h1, Slice(ws, 2, 4)), Len(h1.arrs) + 1)
               salt == LastObj(h2)
               h3 == SetArr(h2, rawCiphertextWords, Splice0(ws, 4))
               h4 == SetSigBytes(h3, rawCiphertext, SigBytes(h3, rawCiphertext) - 16)
           IN  CipherParams_create(h4, [NoParams EXCEPT !.rawCiphertext = rawCiphertext,
                                                        !.salt = salt])
      ELSE CipherParams_create(h1, [NoParams EXCEPT !.rawCiphertext = rawCiphertext])

(***************************************************************************)
(* WordArray.random (core.js): rnd holds the words Math.random yields.     *)
(***************************************************************************)
WordArray_random_wholeWords(h, nBytes, rnd) ==
  WordArray_init(NewArr(h, Slice(rnd, 0, nBytes \div 4)), Len(h.arrs) + 1, nBytes)

WordArray_random(h, nBytes, rnd) ==
  WordArray_init(NewArr(h, Slice(rnd, 0, CeilDiv4(nBytes))), Len(h.arrs) + 1, nBytes)

(***************************************************************************)
(* EvpKDF, an external collaborator of cipher-core.js: a deterministic     *)
(* function of the password bytes and the salt bytes that yields keySize   *)
(* words in a new buffer.                                                  *)
(***************************************************************************)
RECURSIVE Mix(_, _)
Mix(bs, acc) == IF bs = <<>> THEN acc ELSE Mix(Tail(bs), (acc * 31 + Head(bs) + 7) % 251)

EvpKDF_compute(h, pw, salt, keySize) ==
  LET sb == BufBytes(h, salt)
      a == Mix(pw \o sb, 1)
      b == Mix(sb \o pw, 2)
      ws == ArrayOf([i \in 1..keySize |->
               <<(a + i) % 256, (b + 3 * i) % 256, (a + b + 5 * i) % 256, (a * b + i) % 256>>])
  IN  WordArray_create(NewArr(h, ws), Len(h.arrs) + 1)

(***************************************************************************)
(* The OpenSSL KDF wrapper and PBE (cipher-core.js).                       *)
(***************************************************************************)
Cipher_keySize == 4
Cipher_ivSize == 4

\* C_format_OpenSSL as the value of cfg.format
FormatOpenSSL == 1

\* execute(cipher, password, salt): a salt of 0 is the omitted argument.
\* The rest of execute once EvpKDF has put the derived key, the last object
\* of h, on the heap: iv = create(key.words.slice(keySize)),
\* key.sigBytes = keySize * 4, and the CipherParams of key, iv and salt.
KDF_separate(h, salt) ==
  LET k == LastObj(h)
      h1 == WordArray_create(NewArr(h, Slice(Words(h, k), Cipher_keySize, Len(Words(h, k)))),
                             Len(h.arrs) + 1)
      v == Len(h.objs) + 1
  IN  CipherParams_create(SetSigBytes(h1, k, Cipher_keySize * 4),
                          [NoParams EXCEPT !.key = k, !.iv = v, !.salt = salt])

KDF_execute(h, pw, saltArg, rnd) ==
  IF saltArg = 0
  THEN KDF_separate(EvpKDF_compute(WordArray_random(h, 8, rnd), pw, Len(h.objs) + 1,
                                   Cipher_keySize + Cipher_ivSize),
                    Len(h.objs) + 1)
  ELSE KDF_separate(EvpKDF_compute(h, pw, saltArg, Cipher_keySize + Cipher_ivSize), saltArg)

\* The identifiers PBE.encrypt can resolve: its parameters and variable,
\* the shortcuts of the enclosing function, and the globals of the sources.
PBE_encryptScope ==
  {"cipher", "message", "password", "cfg", "params",
   "C", "C_lib", "C_lib_Base", "C_lib_WordArray", "C_enc", "C_enc_Utf8", "C_enc_Base64",
   "C_algo", "C_algo_EvpKDF", "C_lib_Cipher", "C_lib_Cipher_Stream", "C_pad", "C_pad_PKCS5",
   "C_mode", "C_mode_CBC", "C_lib_Cipher_Block", "C_format", "C_format_OpenSSL", "C_kdf",
   "C_kdf_OpenSSL", "C_lib_CipherParams", "C_algo_PBE", "CryptoJS", "YUI"}

\* The identifier of the return statement of PBE.encrypt.
PBE_encryptReturns == "ciphertextParams"

\* PBE.encrypt(cipher, message, password): assembled is the params object
\* the call built; the call returns it only if the returned identifier
\* resolves to it, and throws a ReferenceError if it does not resolve.
\* The return statement: p is the params object the call assembled.
PBE_encryptReturn(h, p) ==
  IF PBE_encryptReturns = "params"
  THEN [heap |-> h, outcome |-> "returned", ret |-> p, assembled |-> p]
  ELSE IF PBE_encryptReturns \in PBE_encryptScope
  THEN [heap |-> h, outcome |-> "returned", ret |-> 0, assembled |-> p]
  ELSE [heap |-> h, outcome |-> "ReferenceError", ret |-> 0, assembled |-> p]

\* params.rawCiphertext = rawCiphertext; params.formatter = cfg.format
PBE_encryptAssemble(r, p) ==
  PBE_encryptReturn([r.heap EXCEPT !.params[p].rawCiphertext = r.ret,
                                   !.params[p].formatter = FormatOpenSSL], p)

\* The call once the KDF has put params, the last CipherParams of h, on the heap.
PBE_encryptWith(h, m, bs) ==
  PBE_encryptAssemble(
    Cipher_encrypt(h, m, h.params[LastParams(h)].key, h.params[LastParams(h)].iv, bs),
    LastParams(h))

PBE_encrypt(h, m, pw, bs, rnd) == PBE_encryptWith(KDF_execute(h, pw, 0, rnd), m, bs)

\* PBE.decrypt(cipher, ciphertext, password): c is a CipherParams object,
\* [kind |-> "params", ref |-> r], or a formatted string,
\* [kind |-> "string", str |-> s].  params is the object the KDF returned
\* to the call.
\* cipher.decrypt(ciphertext.rawCiphertext, params.key, {iv: params.iv}),
\* params being the last CipherParams of h.
PBE_decryptWith(h, cp, bs) ==
  LET r == Cipher_decrypt(h, h.params[cp].rawCiphertext,
                          h.params[LastParams(h)].key, h.params[LastParams(h)].iv, bs)
  IN  [heap |-> r.heap, ret |-> r.ret, params |-> LastParams(h)]

\* params = cfg.kdf.execute(cipher, password, ciphertext.salt)
PBE_decryptParams(h, cp, pw, bs, rnd) ==
  PBE_decryptWith(KDF_execute(h, pw, h.params[cp].salt, rnd), cp, bs)

PBE_decrypt(h, c, pw, bs, rnd) ==
  IF c.kind = "string"
  THEN PBE_decryptParams(OpenSSL_fromString(h, c.str), Len(h.params) + 1, pw, bs, rnd)
  ELSE PBE_decryptParams(h, c.ref, pw, bs, rnd)

\* PBE.decrypt(cipher, PBE.encrypt(cipher, m, pw), pw): an exception of the
\* inner call ends the expression.
\* The value of the whole expression when both calls return.
PBE_returned(r, assembled) ==
  [heap |-> r.heap, outcome |-> "returned", ret |-> r.ret, assembled |-> assembled]

\* The outer call on the outcome e of the inner one.
PBE_decryptOf(e, pw, bs, rnd) ==
  IF e.outcome # "returned" THEN e
  ELSE IF e.ret = 0 THEN [e EXCEPT !.outcome = "TypeError"]
  ELSE PBE_returned(PBE_decrypt(e.heap, [kind |-> "params", ref |-> e.ret], pw, bs, rnd),
                    e.assembled)

PBE_roundTrip(h, m, pw, bs, rnd1, rnd2) ==
  PBE_decryptOf(PBE_encrypt(h, m, pw, bs, rnd1), pw, bs, rnd2)

(***************************************************************************)
(* The Latin1 and Utf8 encoders (core.js), for strings of ASCII            *)
(* characters, given as the sequence of their codes: for these             *)
(* unescape(encodeURIComponent(s)) is s.                                   *)
(***************************************************************************)
RECURSIVE Latin1_loop(_, _, _)
\* words[i >>> 2] |= latin1Str.charCodeAt(i) << (24 - (i % 4) * 8)
Latin1_loop(codes, i, words) ==
  IF i >= Len(codes) THEN words
  ELSE Latin1_loop(codes, i + 1,
         SetWord(words, Index2(i),
                 BitOr(GetWord(words, Index2(i)), ShiftLeft(ToWord(codes[i + 1]), 24 - JsMod(i, 4) * 8))))

Latin1_fromString(h, codes) ==
  WordArray_init(NewArr(h, Latin1_loop(codes, 0, <<>>)), Len(h.arrs) + 1, Len(codes))

Utf8_fromString(h, codes) == Latin1_fromString(h, codes)

(***************************************************************************)
(* A hash primitive.  core.js leaves _doReset, _doHashBlock and            *)
(* _doCompute to the concrete hash; this one follows the primitive         *)
(* contract: _doReset fills the digest words with the initial values,      *)
(* _doHashBlock folds blockSize message words into them in place, and      *)
(* _doCompute folds the pending bytes and the length into them.            *)
(* The hasher record holds _hash, _message and _length.                    *)
(***************************************************************************)
HashInit == <<<<103, 69, 35, 1>>, <<239, 205, 171, 137>>>>

foldWord(hw, mw) ==
  <<(3 * hw[2] + mw[1] + 1) % 256, (3 * hw[3] + mw[2] + 1) % 256,
    (3 * hw[4] + mw[3] + 1) % 256, (3 * hw[1] + mw[4] + 1) % 256>>

RECURSIVE foldWords(_, _)
foldWords(hw, ms) == IF ms = <<>> THEN hw ELSE foldWords(foldWord(hw, Head(ms)), Tail(ms))

RECURSIVE foldBytes(_, _)
foldBytes(hw, bs) ==
  IF bs = <<>> THEN hw
  ELSE foldBytes(<<(hw[2] + Head(bs)) % 256, hw[3], hw[4], (5 * hw[1] + Head(bs) + 1) % 256>>, Tail(bs))

doReset(h, t) == SetArr(h, WordsRef(h, t.hash), HashInit)

doHashBlock(h, t, offset, bs) ==
  LET m == Slice(Words(h, t.message), offset, offset + bs)
      hw == Words(h, t.hash)
  IN  [SetArr(h, WordsRef(h, t.hash), <<foldWords(hw[2], m), foldWords(hw[1], m)>>)
         EXCEPT !.hashed = Append(@, m)]

doCompute(h, t) ==
  LET pb == BufBytes(h, t.message)
      hw == Words(h, t.hash)
      n == t.length % 256
  IN  SetArr(h, WordsRef(h, t.hash),
             <<foldBytes(hw[1], pb \o <<n>>), foldBytes(hw[2], <<n>> \o pb)>>)

(***************************************************************************)
(* The Hash template (core.js).  Each operator yields the new heap and     *)
(* the new hasher record.                                                  *)
(***************************************************************************)
\* A hasher before init has run.
NoHasher == [hash |-> 0, message |-> 0, length |-> 0]

Hash_reset_keepsHashObject(h, t) ==
  IF t.hash = 0
  THEN LET h1 == WordArray_createEmpty(h)
           hash == LastObj(h1)
           h2 == WordArray_createEmpty(h1)
           t1 == [hash |-> hash, message |-> LastObj(h2), length |-> 0]
           h3 == doReset(h2, t1)
       IN  [heap |-> SetSigBytes(h3, hash, Len(Words(h3, hash)) * 4), this |-> t1]
  ELSE LET h2 == WordArray_createEmpty(h)
           t1 == [hash |-> t.hash, message |-> LastObj(h2), length |-> 0]
           h3 == doReset(h2, t1)
       IN  [heap |-> SetSigBytes(h3, t.hash, Len(Words(h3, t.hash)) * 4), this |-> t1]

Hash_reset(h, t) ==
  LET h1 == WordArray_createEmpty(h)
      hash == LastObj(h1)
      h2 == WordArray_createEmpty(h1)
      t1 == [hash |-> hash, message |-> LastObj(h2), length |-> 0]
      h3 == doReset(h2, t1)
  IN  [heap |-> SetSigBytes(h3, hash, Len(Words(h3, hash)) * 4), this |-> t1]

\* Hash.create(): init calls reset.
Hash_create(h) == Hash_reset(h, NoHasher)

RECURSIVE hashBlocksLoop(_, _, _, _, _)
hashBlocksLoop(h, t, offset, nWordsReady, bs) ==
  IF offset >= nWordsReady THEN h
  ELSE hashBlocksLoop(doHashBlock(h, t, offset, bs), t, offset + bs, nWordsReady, bs)

hashBlocks_wordsKept(h, t, bs) ==
  LET msg == t.message
      sigBytes == SigBytes(h, msg)
      nBlocksReady == sigBytes \div (bs * 4)
      nWordsReady == nBlocksReady * bs
  IN  IF nBlocksReady # 0
      THEN SetSigBytes(hashBlocksLoop(h, t, 0, nWordsReady, bs), msg, sigBytes - nWordsReady * 4)
      ELSE h

hashBlocks(h, t, bs) ==
  LET msg == t.message
      sigBytes == SigBytes(h, msg)
      nBlocksReady == sigBytes \div (bs * 4)
      nWordsReady == nBlocksReady * bs
  IN  IF nBlocksReady # 0
      THEN LET h1 == hashBlocksLoop(h, t, 0, nWordsReady, bs)
               h2 == SetArr(h1, WordsRef(h1, msg), Splice0(Words(h1, msg), nWordsReady))
           IN  SetSigBytes(h2, msg, sigBytes - nWordsReady * 4)
      ELSE h

\* update(messageUpdate): d is a buffer, [kind |-> "buffer", ref |-> r], or
\* a string, [kind |-> "string", codes |-> s].
\* this._length += messageUpdate.sigBytes; this._hashBlocks()
Hash_updateLength(h, t, messageUpdate, bs) ==
  LET t1 == [t EXCEPT !.length = @ + SigBytes(h, messageUpdate)]
  IN  [heap |-> hashBlocks(h, t1, bs), this |-> t1]

\* this._message.concat(messageUpdate)
Hash_updateWith(h, t, messageUpdate, bs) ==
  Hash_updateLength(concat(h, t.message, messageUpdate), t, messageUpdate, bs)

Hash_update(h, t, d, bs) ==
  IF d.kind = "string"
  THEN Hash_updateWith(Utf8_fromString(h, d.codes), t, Len(h.objs) + 1, bs)
  ELSE Hash_updateWith(h, t, d.ref, bs)

\* compute(messageUpdate) on an instance; d of kind "none" is the omitted
\* argument.  ret is the returned digest object.
\* this._doCompute(); var hash = this._hash; this.reset(); return hash
computeFinal(u) ==
  LET r == Hash_reset(doCompute(u.heap, u.this), u.this)
  IN  [heap |-> r.heap, this |-> r.this, ret |-> u.this.hash]

computeInstance(h, t, d, bs) ==
  computeFinal(IF d.kind # "none" THEN Hash_update(h, t, d, bs) ELSE [heap |-> h, this |-> t])

(***************************************************************************)
(* HMAC (algo-hmac.js).  An HMAC instance is the record of its _hasher,    *)
(* _oKey and _iKey; each operator yields the new heap and the new          *)
(* instance.  A key or message argument d is a buffer,                     *)
(* [kind |-> "buffer", ref |-> r], a string, [kind |-> "string",           *)
(* codes |-> s], or, for compute, the omitted argument of kind "none".     *)
(***************************************************************************)
NoHmac == [hasher |-> NoHasher, oKey |-> 0, iKey |-> 0]

\* 0x5c5c5c5c and 0x36363636
OPad == <<92, 92, 92, 92>>
IPad == <<54, 54, 54, 54>>

\* words[i] ^= c on the array a
XorWordAt(h, a, i, c) ==
  SetArr(h, a, SetWord(h.arrs[a], i, BitXor(GetWord(h.arrs[a], i), c)))

RECURSIVE HMAC_xorLoop(_, _, _, _, _)
\* for (i = 0; i < hasherBlockSize; i++) { oKeyWords[i] ^= ...; iKeyWords[i] ^= ... }
HMAC_xorLoop(h, oKeyWords, iKeyWords, i, bs) ==
  IF i >= bs THEN h
  ELSE HMAC_xorLoop(XorWordAt(XorWordAt(h, oKeyWords, i, OPad), iKeyWords, i, IPad),
                    oKeyWords, iKeyWords, i + 1, bs)

\* An operation of the instance m that left its hasher as u.this.
HMAC_withHasher(u, m) == [heap |-> u.heap, this |-> [m EXCEPT !.hasher = u.this]]

\* hasher.update(this._iKey)
HMAC_prime(r, m, bs) ==
  HMAC_withHasher(Hash_update(r.heap, r.this, [kind |-> "buffer", ref |-> m.iKey], bs), m)

HMAC_reset_notPrimed(h, m, bs) == HMAC_withHasher(Hash_reset(h, m.hasher), m)

HMAC_reset(h, m, bs) == HMAC_prime(Hash_reset(h, m.hasher), m, bs)

\* The XOR loop and oKey.sigBytes = iKey.sigBytes = hasherBlockSizeBytes,
\* then this.reset().
HMAC_initXor(h, t, oKey, iKey, bs) ==
  HMAC_reset(SetSigBytes(SetSigBytes(HMAC_xorLoop(h, WordsRef(h, oKey), WordsRef(h, iKey), 0, bs),
                                     iKey, bs * 4),
                         oKey, bs * 4),
             [hasher |-> t, oKey |-> oKey, iKey |-> iKey], bs)

\* oKey = key.clone(); iKey = key.clone(), key being r.ret.
HMAC_initClones(r, bs) ==
  HMAC_initXor(clone(clone(r.heap, r.ret), r.ret), r.this,
               Len(r.heap.objs) + 1, Len(r.heap.objs) + 2, bs)

\* if (key.sigBytes > hasherBlockSizeBytes) key = hasher.compute(key)
HMAC_initKey(h, t, k, bs) ==
  IF SigBytes(h, k) > bs * 4
  THEN HMAC_initClones(computeInstance(h, t, [kind |-> "buffer", ref |-> k], bs), bs)
  ELSE HMAC_initClones([heap |-> h, this |-> t, ret |-> k], bs)

\* if (typeof key == 'string') key = C_enc_Utf8.fromString(key)
HMAC_initHasher(r, d, bs) ==
  IF d.kind = "string"
  THEN HMAC_initKey(Utf8_fromString(r.heap, d.codes), r.this, Len(r.heap.objs) + 1, bs)
  ELSE HMAC_initKey(r.heap, r.this, d.ref, bs)

\* HMAC.create(hasher, key): hasher = this._hasher = hasher.create()
HMAC_init(h, d, bs) == HMAC_initHasher(Hash_create(h), d, bs)

HMAC_update(h, m, d, bs) == HMAC_withHasher(Hash_update(h, m.hasher, d, bs), m)

\* return hmac
HMAC_computeReturn(u, hmacRef) == [heap |-> u.heap, this |-> u.this, ret |-> hmacRef]

\* this.reset() after the outer compute r
HMAC_computeReset(r, m, bs) ==
  HMAC_computeReturn(HMAC_reset(r.heap, [m EXCEPT !.hasher = r.this], bs), r.ret)

\* hasher.compute(<clone>.concat(<inner digest>)), r being the inner
\* compute and c the clone of _oKey.
HMAC_computeOuter(r, m, c, bs) ==
  HMAC_computeReset(
    computeInstance(concat(r.heap, c, r.ret), r.this, [kind |-> "buffer", ref |-> c], bs),
    m, bs)

\* hasher.compute(), the clone of _oKey being the last object of h.
HMAC_computeInner(h, m, bs) ==
  HMAC_computeOuter(computeInstance(h, m.hasher, [kind |-> "none"], bs), m, LastObj(h), bs)

HMAC_computeFinal_innerPad(u, bs) == HMAC_computeInner(clone(u.heap, u.this.iKey), u.this, bs)

\* this._oKey.clone()
HMAC_computeFinal(u, bs) == HMAC_computeInner(clone(u.heap, u.this.oKey), u.this, bs)

HMAC_compute(h, m, d, bs) ==
  HMAC_computeFinal(IF d.kind # "none" THEN HMAC_update(h, m, d, bs)
                    ELSE [heap |-> h, this |-> m], bs)

(***************************************************************************)
(* The function the hash primitive computes on a byte sequence: its block  *)
(* function over the whole blocks in order, then its finalisation over     *)
(* the remaining bytes and the length.                                     *)
(***************************************************************************)
WordAt(bytes, j) ==
  <<ByteOr0(bytes, j), ByteOr0(bytes, j + 1), ByteOr0(bytes, j + 2), ByteOr0(bytes, j + 3)>>

\* The whole blocks of a byte sequence, each a sequence of bs words.
BlocksOf(bytes, bs) ==
  ArrayOf([b \in 1..(Len(bytes) \div (bs * 4)) |->
             ArrayOf([k \in 1..bs |-> WordAt(bytes, (b - 1) * bs * 4 + (k - 1) * 4)])])

\* The bytes after the last whole block.
TailOf(bytes, bs) ==
  LET n == (Len(bytes) \div (bs * 4)) * bs * 4
  IN  IF n = Len(bytes) THEN <<>> ELSE SubSeq(bytes, n + 1, Len(bytes))

RECURSIVE HashBlocksOf(_, _)
HashBlocksOf(hw, blocks) ==
  IF blocks = <<>> THEN hw
  ELSE HashBlocksOf(<<foldWords(hw[2], Head(blocks)), foldWords(hw[1], Head(blocks))>>, Tail(blocks))

HashFinal(hw, pb, n) == <<foldBytes(hw[1], pb \o <<n>>), foldBytes(hw[2], <<n>> \o pb)>>

\* The digest words of a byte sequence.
HashOf(bytes, bs) ==
  HashFinal(HashBlocksOf(HashInit, BlocksOf(bytes, bs)), TailOf(bytes, bs), Len(bytes) % 256)

\* The bytes of a sequence of words.
WordsBytes(ws) == Bytes(ws, 4 * Len(ws))

(***************************************************************************)
(* Inputs: arrays of at most MaxWords words, and buffers over them whose   *)
(* sigBytes does not exceed words.length * 4.  A sigBytes below that       *)
(* leaves non-zero bits, or whole words, beyond the significant bytes.     *)
(***************************************************************************)
WordVals == {<<0, 0, 0, 0>>, <<1, 2, 3, 4>>, <<255, 255, 255, 255>>}

WordSeqs(n) == UNION {[1..k -> WordVals] : k \in 0..n}

NoCipher ==
  /\ message = 0 /\ key = 0 /\ iv = 0 /\ ciphertext = 0 /\ plaintext = 0
  /\ iv2 = 0 /\ runs = <<>>
NoFormat == params = 0 /\ str = <<>> /\ parsed = 0
NoPads == [iKey |-> <<>>, oKey |-> <<>>]
NoHash ==
  /\ hasher = NoHasher /\ digests = <<>> /\ nOps = 0
  /\ hmac = NoHmac /\ hkey = [kind |-> "none"] /\ pads = NoPads /\ fed = <<>> /\ mark = 0
NoResult == [outcome |-> "none", ret |-> 0, assembled |-> 0]
NoPBE == password = <<>> /\ input = 0 /\ encResult = NoResult /\ rtResult = NoResult /\ derived = <<>>

(***************************************************************************)
(* Padding: a caller pads a buffer in place and unpads it again.           *)
(***************************************************************************)
InitPad ==
  /\ \E ws \in WordSeqs(MaxWords) : \E sb \in 0..(Len(ws) * 4) :
       /\ heap = WordArray_init(NewArr(EmptyHeap, ws), 1, sb)
       /\ orig = [words |-> ws, sigBytes |-> sb]
  /\ data = 1
  /\ blockSize \in 1..MaxBlockSize
  /\ pc = "start"
  /\ pre = EmptyHeap
  /\ NoCipher /\ NoFormat /\ NoPBE /\ NoHash

DoPad ==
  /\ pc = "start"
  /\ heap' = PKCS5_pad(heap, data, blockSize)
  /\ pc' = "padded"
  /\ UNCHANGED <<data, blockSize, orig, pre, cipherVars, formatVars, pbeVars, hashVars>>

DoUnpad ==
  /\ pc = "padded"
  /\ heap' = PKCS5_unpad(heap, data)
  /\ pc' = "unpadded"
  /\ UNCHANGED <<data, blockSize, orig, pre, cipherVars, formatVars, pbeVars, hashVars>>

NextPad == DoPad \/ DoUnpad

SpecPad == InitPad /\ [][NextPad]_vars

\* C3: after pad, exactly n = blockSizeBytes - (sigBytes mod blockSizeBytes)
\* bytes of value n follow the unchanged original bytes, 1 <= n <=
\* blockSizeBytes, and the new sigBytes is a multiple of blockSizeBytes.
PadAppendsNBytesOfValueN ==
  pc = "padded" =>
    LET bsb == 4 * blockSize
        n == bsb - (orig.sigBytes % bsb)
        b == BufBytes(heap, data)
    IN  /\ n >= 1 /\ n <= bsb
        /\ SigBytes(heap, data) = orig.sigBytes + n
        /\ SigBytes(heap, data) % bsb = 0
        /\ \A i \in 1..orig.sigBytes : b[i] = ByteAt(orig.words, i - 1)
        /\ \A i \in (orig.sigBytes + 1)..(orig.sigBytes + n) : b[i] = n

\* A padded buffer that was block-aligned and one that was not, with bits
\* beyond sigBytes in its last word.
PadWitness ==
  /\ pc = "padded"
  /\ orig.sigBytes = 4 * blockSize
  /\ SigBytes(heap, data) = 8 * blockSize

\* C4: unpad after pad restores sigBytes and the significant bytes.
UnpadAfterPadRestores ==
  pc = "unpadded" =>
    /\ SigBytes(heap, data) = orig.sigBytes
    /\ BufBytes(heap, data) = Bytes(orig.words, orig.sigBytes)

UnpadWitness ==
  /\ pc = "unpadded"
  /\ orig.sigBytes % 4 = 1
  /\ orig.words[(orig.sigBytes \div 4) + 1] = <<255, 255, 255, 255>>
  /\ SigBytes(heap, data) = orig.sigBytes
(***************************************************************************)
(* Cipher engine: a caller encrypts a message buffer under a key and an    *)
(* IV of one block, then decrypts the returned ciphertext.                 *)
(***************************************************************************)
KeyVals == {<<0, 0, 0, 0>>, <<250, 1, 128, 7>>}

InitCipher ==
  /\ blockSize \in 1..MaxBlockSize
  /\ \E ws \in WordSeqs(MaxWords) : \E sb \in 0..(Len(ws) * 4) :
     \E ivw \in [1..blockSize -> WordVals] : \E kw \in KeyVals :
       /\ heap = WordArray_create(
                   NewArr(WordArray_create(
                     NewArr(WordArray_init(NewArr(EmptyHeap, ws), 1, sb), <<kw>>), 2), ivw), 3)
       /\ orig = [words |-> ws, sigBytes |-> sb]
  /\ message = 1 /\ key = 2 /\ iv = 3
  /\ ciphertext = 0 /\ plaintext = 0 /\ iv2 = 0 /\ runs = <<>>
  /\ pre = EmptyHeap
  /\ data = 0
  /\ NoFormat /\ NoPBE /\ NoHash
  /\ pc = "start"

Encrypt ==
  /\ pc = "start"
  /\ LET r == Cipher_encrypt(heap, message, key, iv, blockSize)
     IN  heap' = r.heap /\ ciphertext' = r.ret
  /\ pre' = heap
  /\ pc' = "encrypted"
  /\ UNCHANGED <<blockSize, orig, padVars, formatVars, pbeVars, hashVars, message, key, iv, plaintext,
                 iv2, runs>>

Decrypt ==
  /\ pc = "encrypted"
  /\ LET r == Cipher_decrypt(heap, ciphertext, key, iv, blockSize)
     IN  heap' = r.heap /\ plaintext' = r.ret
  /\ pre' = heap
  /\ pc' = "decrypted"
  /\ UNCHANGED <<blockSize, orig, padVars, formatVars, pbeVars, hashVars, message, key, iv, ciphertext,
                 iv2, runs>>

NextCipher == Encrypt \/ Decrypt

SpecCipher == InitCipher /\ [][NextCipher]_vars

\* C1: decrypt(encrypt(m, k, cfg), k, cfg) has the sigBytes and the
\* significant bytes of m (CBC, PKCS5).
BlockRoundTrip ==
  pc = "decrypted" =>
    /\ SigBytes(heap, plaintext) = orig.sigBytes
    /\ BufBytes(heap, plaintext) = Bytes(orig.words, orig.sigBytes)

\* A message of more than one block that is not block-aligned came back.
BlockRoundTripWitness ==
  /\ pc = "decrypted"
  /\ orig.sigBytes > 4 * blockSize
  /\ orig.sigBytes % (4 * blockSize) # 0
  /\ SigBytes(heap, plaintext) = orig.sigBytes

\* An object and its words array are as they were before the call.
SameAsBefore(o) ==
  /\ heap.objs[o] = pre.objs[o]
  /\ Words(heap, o) = Words(pre, o)

\* C2: encrypt and decrypt leave the input buffer and the IV as they were,
\* and return a distinct object with its own words array.
CipherLeavesInputs ==
  /\ pc = "encrypted" =>
       /\ SameAsBefore(message) /\ SameAsBefore(iv)
       /\ ciphertext # message
       /\ WordsRef(heap, ciphertext) # WordsRef(heap, message)
  /\ pc = "decrypted" =>
       /\ SameAsBefore(ciphertext) /\ SameAsBefore(iv)
       /\ plaintext # ciphertext
       /\ WordsRef(heap, plaintext) # WordsRef(heap, ciphertext)

\* Both calls returned, and each result differs in content from its input.
CipherLeavesInputsWitness ==
  /\ pc = "decrypted"
  /\ Words(heap, plaintext) # Words(heap, ciphertext)
  /\ BufBytes(heap, ciphertext) # BufBytes(heap, message)
  /\ orig.sigBytes > 0
(***************************************************************************)
(* OpenSSL format: a caller stringifies a CipherParams object, with or     *)
(* without a salt, and parses the string again.  A salt is the 8 bytes     *)
(* the format lays down (WordArray.random(8) in the KDF).                  *)
(***************************************************************************)
RawWordVals == {Magic0, Magic1, <<255, 2, 3, 4>>}
SaltWordVals == {<<1, 35, 69, 103>>, <<137, 171, 205, 239>>}

InitFormat ==
  /\ \E ws \in UNION {[1..k -> RawWordVals] : k \in 0..MaxWords} :
     \E sb \in 0..(Len(ws) * 4) :
       LET h1 == WordArray_init(NewArr(EmptyHeap, ws), 1, sb)
       IN  \/ heap = CipherParams_create(h1, [NoParams EXCEPT !.rawCiphertext = 1])
           \/ \E sw \in [1..2 -> SaltWordVals] :
                heap = CipherParams_create(WordArray_create(NewArr(h1, sw), 2),
                                           [NoParams EXCEPT !.rawCiphertext = 1, !.salt = 2])
  /\ params = 1
  /\ str = <<>> /\ parsed = 0
  /\ pre = EmptyHeap
  /\ orig = 0 /\ data = 0 /\ blockSize = 0
  /\ NoCipher /\ NoPBE /\ NoHash
  /\ pc = "start"

Stringify ==
  /\ pc = "start"
  /\ LET r == OpenSSL_toString(heap, params)
     IN  heap' = r.heap /\ str' = r.ret
  /\ pre' = heap
  /\ pc' = "stringified"
  /\ UNCHANGED <<blockSize, orig, padVars, cipherVars, pbeVars, hashVars, params, parsed>>

Parse ==
  /\ pc = "stringified"
  /\ heap' = OpenSSL_fromString(heap, str)
  /\ parsed' = LastParams(heap')
  /\ pre' = heap
  /\ pc' = "parsed"
  /\ UNCHANGED <<blockSize, orig, padVars, cipherVars, pbeVars, hashVars, params, str>>

NextFormat == Stringify \/ Parse

SpecFormat == InitFormat /\ [][NextFormat]_vars

Salted(p) == heap.params[p].salt # 0
RawOf(p) == heap.params[p].rawCiphertext
SaltOf(p) == heap.params[p].salt
MagicBytes == <<83, 97, 108, 116, 101, 100, 95, 95>>

\* C6: toString encodes "Salted__", the salt bytes and the rawCiphertext
\* bytes when there is a salt, the rawCiphertext bytes alone when there is
\* none, and leaves params.salt and params.rawCiphertext unchanged.
ToStringLayout ==
  pc = "stringified" =>
    /\ SameAsBefore(RawOf(params))
    /\ heap.params[params] = pre.params[params]
    /\ IF Salted(params)
       THEN /\ SameAsBefore(SaltOf(params))
            /\ str = Base64_toString(MagicBytes \o BufBytes(pre, SaltOf(params))
                                       \o BufBytes(pre, RawOf(params)))
       ELSE str = Base64_toString(BufBytes(pre, RawOf(params)))

\* A salted object with a rawCiphertext that is not word-aligned was encoded.
ToStringLayoutWitness ==
  /\ pc = "stringified"
  /\ Salted(params)
  /\ SigBytes(heap, SaltOf(params)) = 8
  /\ SigBytes(heap, RawOf(params)) % 4 = 3
  /\ Len(str) = 4 * ((16 + SigBytes(heap, RawOf(params)) + 2) \div 3)

\* fromString(toString(p)) has the rawCiphertext and the salt of p.
ParsedAsGiven ==
  /\ BufBytes(heap, RawOf(parsed)) = BufBytes(heap, RawOf(params))
  /\ SigBytes(heap, RawOf(parsed)) = SigBytes(heap, RawOf(params))
  /\ Salted(parsed) <=> Salted(params)
  /\ Salted(params) => BufBytes(heap, SaltOf(parsed)) = BufBytes(heap, SaltOf(params))

MagicPrefixed(p) ==
  /\ SigBytes(heap, RawOf(p)) >= 8
  /\ SubSeq(BufBytes(heap, RawOf(p)), 1, 8) = MagicBytes

PasswordVals == {<<112>>, <<112, 119>>}
RandVals == {<<<<17, 34, 51, 68>>, <<85, 102, 119, 136>>>>, <<<<200, 1, 2, 3>>, <<4, 5, 6, 7>>>>}

InitPBE ==
  /\ blockSize \in 1..MaxBlockSize
  /\ password \in PasswordVals
  /\ \E ws \in WordSeqs(MaxWords) : \E sb \in {n \in 0..(Len(ws) * 4) : n + 1 >= Len(ws) * 4} :
     \E raw \in [1..blockSize -> KeyVals] : \E salted \in BOOLEAN : \E kind \in {"params", "string"} :
       LET h1 == WordArray_init(NewArr(EmptyHeap, ws), 1, sb)
           h2 == WordArray_create(NewArr(h1, raw), 2)
           h3 == IF salted
                 THEN CipherParams_create(
                        WordArray_create(NewArr(h2, <<<<1, 35, 69, 103>>, <<137, 171, 205, 239>>>>), 3),
                        [NoParams EXCEPT !.rawCiphertext = 2, !.salt = 3])
                 ELSE CipherParams_create(h2, [NoParams EXCEPT !.rawCiphertext = 2])
       IN  /\ heap = h3
           /\ orig = [words |-> ws, sigBytes |-> sb]
           /\ input = IF kind = "params" THEN [kind |-> "params", ref |-> 1]
                      ELSE [kind |-> "string", str |-> OpenSSL_toString(h3, 1).ret]
  /\ message = 1
  /\ encResult = NoResult /\ rtResult = NoResult /\ derived = <<>>
  /\ key = 0 /\ iv = 0 /\ ciphertext = 0 /\ plaintext = 0 /\ iv2 = 0 /\ runs = <<>>
  /\ pre = EmptyHeap
  /\ data = 0
  /\ NoFormat /\ NoHash
  /\ pc = "start"

PbeEncrypt ==
  /\ pc = "start"
  /\ \E rnd \in RandVals :
       \E r \in {PBE_encrypt(heap, message, password, blockSize, rnd)} :
           /\ heap' = r.heap
           /\ encResult' = [outcome |-> r.outcome, ret |-> r.ret, assembled |-> r.assembled]
  /\ pre' = heap
  /\ pc' = "encrypted"
  /\ UNCHANGED <<blockSize, orig, padVars, cipherVars, formatVars, hashVars, password, input, rtResult, derived>>

PbeRoundTrip ==
  /\ pc = "start"
  /\ \E rnd1 \in RandVals : \E rnd2 \in RandVals :
       \E r \in {PBE_roundTrip(heap, message, password, blockSize, rnd1, rnd2)} :
           /\ heap' = r.heap
           /\ rtResult' = [outcome |-> r.outcome, ret |-> r.ret, assembled |-> r.assembled]
  /\ pre' = heap
  /\ pc' = "roundTripped"
  /\ UNCHANGED <<blockSize, orig, padVars, cipherVars, formatVars, hashVars, password, input, encResult, derived>>

PbeDecrypt ==
  /\ pc \in {"start", "decrypted"}
  /\ Len(derived) < 2
  /\ \E rnd \in RandVals :
       \E r \in {PBE_decrypt(heap, input, password, blockSize, rnd)} :
           /\ heap' = r.heap
           /\ derived' = Append(derived,
                [key |-> BufBytes(r.heap, r.heap.params[r.params].key),
                 iv |-> BufBytes(r.heap, r.heap.params[r.params].iv),
                 sigBytes |-> SigBytes(r.heap, r.ret),
                 plaintext |-> BufBytes(r.heap, r.ret)])
  /\ pre' = heap
  /\ pc' = "decrypted"
  /\ UNCHANGED <<blockSize, orig, padVars, cipherVars, formatVars, hashVars, password, input, encResult, rtResult>>

NextPBE == PbeEncrypt \/ PbeRoundTrip \/ PbeDecrypt

SpecPBE == InitPBE /\ [][NextPBE]_vars

\* C7: PBE.encrypt returns normally, and returns the CipherParams object it
\* assembled, with key, iv and salt from the KDF, the rawCiphertext and the
\* formatter.
PBEEncryptReturnsAssembled ==
  pc = "encrypted" =>
    /\ encResult.outcome = "returned"
    /\ encResult.ret = encResult.assembled
    /\ LET p == heap.params[encResult.assembled]
       IN  /\ p.key # 0 /\ p.iv # 0 /\ p.salt # 0 /\ p.rawCiphertext # 0
           /\ p.formatter = FormatOpenSSL

\* C8: PBE.decrypt(cipher, PBE.encrypt(cipher, m, pw), pw) returns a buffer
\* equal to m.
PBERoundTrip ==
  pc = "roundTripped" =>
    /\ rtResult.outcome = "returned"
    /\ rtResult.ret # 0
    /\ SigBytes(heap, rtResult.ret) = orig.sigBytes
    /\ BufBytes(heap, rtResult.ret) = Bytes(orig.words, orig.sigBytes)

\* C9: two decryptions of the same ciphertext with the same password derive
\* the same key and IV and return the same plaintext, salted or not.
PBEDecryptDeterministic ==
  Len(derived) = 2 => derived[1] = derived[2]

(***************************************************************************)
(* Hash template: a caller creates a hasher and calls update and compute   *)
(* in any order with buffers and strings; it keeps every digest returned.  *)
(***************************************************************************)
MaxOps == 3

HashBuffers ==
  <<[words |-> <<<<1, 2, 3, 4>>>>, sigBytes |-> 1],
    [words |-> <<<<255, 254, 253, 252>>>>, sigBytes |-> 4],
    [words |-> <<<<9, 8, 7, 6>>, <<5, 4, 3, 2>>>>, sigBytes |-> 7]>>

RECURSIVE AllocBuffers(_, _)
AllocBuffers(h, bufs) ==
  IF bufs = <<>> THEN h
  ELSE AllocBuffers(WordArray_init(NewArr(h, Head(bufs).words), Len(h.arrs) + 1, Head(bufs).sigBytes),
                    Tail(bufs))

HashOperands ==
  {[kind |-> "buffer", ref |-> r] : r \in 1..Len(HashBuffers)}
    \cup {[kind |-> "string", codes |-> <<97, 98>>]}

NoOperand == [kind |-> "none"]

\* The bytes an argument of update or compute stands for.
OperandBytes(h, d) ==
  IF d.kind = "string" THEN d.codes
  ELSE IF d.kind = "buffer" THEN BufBytes(h, d.ref)
  ELSE <<>>

InitHash ==
  /\ blockSize \in 1..MaxBlockSize
  /\ LET r == Hash_create(AllocBuffers(EmptyHeap, HashBuffers))
     IN  heap = r.heap /\ hasher = r.this
  /\ digests = <<>> /\ nOps = 0
  /\ hmac = NoHmac /\ hkey = NoOperand /\ pads = NoPads /\ fed = <<>> /\ mark = 0
  /\ pre = EmptyHeap
  /\ orig = 0 /\ data = 0
  /\ NoCipher /\ NoFormat /\ NoPBE
  /\ pc = "created"

HashUpdate ==
  /\ nOps < MaxOps
  /\ \E d \in HashOperands :
       \E r \in {Hash_update(heap, hasher, d, blockSize)} :
           heap' = r.heap /\ hasher' = r.this /\ fed' = fed \o OperandBytes(heap, d)
  /\ nOps' = nOps + 1
  /\ pre' = heap
  /\ pc' = "updated"
  /\ UNCHANGED <<blockSize, orig, padVars, cipherVars, formatVars, pbeVars, digests,
                 hmac, hkey, pads, mark>>

HashCompute ==
  /\ nOps < MaxOps
  /\ \E d \in HashOperands \cup {NoOperand} :
       \E r \in {computeInstance(heap, hasher, d, blockSize)} :
           /\ heap' = r.heap /\ hasher' = r.this
           /\ digests' = Append(digests, [ref |-> r.ret, words |-> Words(r.heap, r.ret),
                                          sigBytes |-> SigBytes(r.heap, r.ret)])
           /\ mark' = Len(r.heap.hashed)
  /\ fed' = <<>>
  /\ nOps' = nOps + 1
  /\ pre' = heap
  /\ pc' = "computed"
  /\ UNCHANGED <<blockSize, orig, padVars, cipherVars, formatVars, pbeVars, hmac, hkey, pads>>

NextHash == HashUpdate \/ HashCompute

SpecHash == InitHash /\ [][NextHash]_vars

\* The value of the digest compute(d) returns on hasher t of heap h.
DigestOf(h, t, d) ==
  LET r == computeInstance(h, t, d, blockSize)
  IN  [words |-> Words(r.heap, r.ret), sigBytes |-> SigBytes(r.heap, r.ret)]

\* C10: after compute the pending buffer is empty, the byte counter is 0
\* and the digest state is the initial one, a following compute(y) returns
\* what it returns on a fresh instance, and no digest returned earlier is
\* changed by later operations.
ComputeIsHardReset ==
  /\ pc = "computed" =>
       /\ SigBytes(heap, hasher.message) = 0
       /\ Words(heap, hasher.message) = <<>>
       /\ hasher.length = 0
       /\ Words(heap, hasher.hash) = HashInit
       /\ SigBytes(heap, hasher.hash) = 4 * Len(HashInit)
       /\ \A y \in HashOperands \cup {NoOperand} :
            LET fresh == Hash_create(heap)
            IN  DigestOf(heap, hasher, y) = DigestOf(fresh.heap, fresh.this, y)
  /\ \A i \in 1..Len(digests) :
       /\ Words(heap, digests[i].ref) = digests[i].words
       /\ SigBytes(heap, digests[i].ref) = digests[i].sigBytes

\* Two computes after an update returned different digests.
ComputeIsHardResetWitness ==
  /\ pc = "computed"
  /\ Len(digests) = 2
  /\ nOps = 3
  /\ digests[1].words # digests[2].words
  /\ digests[1].words # HashInit

\* The blocks handed to the primitive's block function since the last reset.
BlocksSinceReset == SubSeq(heap.hashed, mark + 1, Len(heap.hashed))

\* C15: at the return of every update the blocks handed to the block
\* function since the last reset are the consecutive whole blocks of the
\* concatenation of the data passed, the pending buffer holds the rest of
\* it and is shorter than a block, and the counter is the number of bytes
\* passed; the digest state depends on the concatenation only.
UpdateExtractsBlocks ==
  pc \in {"created", "updated", "computed"} =>
    /\ BlocksSinceReset = BlocksOf(fed, blockSize)
    /\ BufBytes(heap, hasher.message) = TailOf(fed, blockSize)
    /\ SigBytes(heap, hasher.message) < blockSize * 4
    /\ hasher.length = Len(fed)
    /\ Words(heap, hasher.hash) = HashBlocksOf(HashInit, BlocksOf(fed, blockSize))

\* Two updates whose data made up a whole block and a rest.
UpdateExtractsBlocksWitness ==
  /\ pc = "updated"
  /\ nOps = 2
  /\ digests = <<>>
  /\ Len(BlocksSinceReset) >= 1
  /\ SigBytes(heap, hasher.message) > 0
  /\ SigBytes(pre, hasher.message) > 0

(***************************************************************************)
(* HMAC: a caller creates an HMAC over the hash with a key and calls       *)
(* update and compute, at most MaxOps calls.  The block is at least as     *)
(* long as the digest, as it is for the hashes of the library.  pads       *)
(* records the bytes of _iKey and _oKey at the return of create, fed the   *)
(* bytes passed since the last compute, and each entry of digests the      *)
(* returned MAC with the bytes it was computed over.                       *)
(***************************************************************************)
HmacKeyBuffers ==
  <<[words |-> <<<<1, 2, 3, 4>>>>, sigBytes |-> 2],
    [words |-> <<<<17, 34, 51, 68>>, <<85, 102, 119, 136>>>>, sigBytes |-> 8],
    [words |-> <<<<1, 2, 3, 4>>, <<5, 6, 7, 8>>, <<9, 10, 11, 12>>, <<13, 14, 15, 16>>>>,
     sigBytes |-> 13]>>

HmacKeys ==
  {[kind |-> "buffer", ref |-> Len(HashBuffers) + r] : r \in 1..Len(HmacKeyBuffers)}
    \cup {[kind |-> "string", codes |-> <<107, 101, 121>>]}

HmacOperands ==
  {[kind |-> "buffer", ref |-> 3], [kind |-> "string", codes |-> <<97, 98>>]}

HmacBlockSizes == Len(HashInit)..(MaxBlockSize + 1)

InitHmac ==
  /\ blockSize \in HmacBlockSizes
  /\ hkey \in HmacKeys
  /\ \E r \in {HMAC_init(AllocBuffers(EmptyHeap, HashBuffers \o HmacKeyBuffers), hkey, blockSize)} :
       /\ heap = r.heap /\ hmac = r.this
       /\ pads = [iKey |-> BufBytes(r.heap, r.this.iKey), oKey |-> BufBytes(r.heap, r.this.oKey)]
  /\ orig = IF hkey.kind = "string" THEN [words |-> <<>>, sigBytes |-> 0]
            ELSE HmacKeyBuffers[hkey.ref - Len(HashBuffers)]
  /\ hasher = NoHasher /\ digests = <<>> /\ nOps = 0 /\ fed = <<>> /\ mark = 0
  /\ pre = EmptyHeap
  /\ data = 0
  /\ NoCipher /\ NoFormat /\ NoPBE
  /\ pc = "primed"

HmacUpdate ==
  /\ nOps < MaxOps
  /\ \E d \in HmacOperands :
       \E r \in {HMAC_update(heap, hmac, d, blockSize)} :
           heap' = r.heap /\ hmac' = r.this /\ fed' = fed \o OperandBytes(heap, d)
  /\ nOps' = nOps + 1
  /\ pre' = heap
  /\ pc' = "updated"
  /\ UNCHANGED <<blockSize, orig, padVars, cipherVars, formatVars, pbeVars,
                 hasher, digests, hkey, pads, mark>>

HmacCompute ==
  /\ nOps < MaxOps
  /\ \E d \in HmacOperands \cup {NoOperand} :
       \E r \in {HMAC_compute(heap, hmac, d, blockSize)} :
           /\ heap' = r.heap /\ hmac' = r.this
           /\ digests' = Append(digests, [ref |-> r.ret, words |-> Words(r.heap, r.ret),
                                          sigBytes |-> SigBytes(r.heap, r.ret),
                                          data |-> fed \o OperandBytes(heap, d)])
  /\ fed' = <<>>
  /\ nOps' = nOps + 1
  /\ pre' = heap
  /\ pc' = "computed"
  /\ UNCHANGED <<blockSize, orig, padVars, cipherVars, formatVars, pbeVars,
                 hasher, hkey, pads, mark>>

NextHmac == HmacUpdate \/ HmacCompute

SpecHmac == InitHmac /\ [][NextHmac]_vars

\* H(outerKey || H(innerKey || data)) for the recorded pads, as bytes.
HmacOf(bytes) ==
  WordsBytes(HashOf(pads.oKey \o WordsBytes(HashOf(pads.iKey \o bytes, blockSize)), blockSize))

\* C11: every compute returns H(outerKey || H(innerKey || d1 || ... || dn || f))
\* for the data passed since the instance was primed, and update and compute
\* leave the stored innerKey and outerKey as they were.
HmacResult ==
  /\ \A i \in 1..Len(digests) :
       Bytes(digests[i].words, digests[i].sigBytes) = HmacOf(digests[i].data)
  /\ BufBytes(heap, hmac.iKey) = pads.iKey
  /\ BufBytes(heap, hmac.oKey) = pads.oKey

\* A compute after two updates returned the MAC of their data.
HmacResultWitness ==
  /\ pc = "computed"
  /\ nOps = 3
  /\ Len(digests) = 1
  /\ Len(digests[1].data) > blockSize * 4
  /\ Bytes(digests[1].words, digests[1].sigBytes) = HmacOf(digests[1].data)

\* The bytes of the MAC the compute r returned.
MacBytes(r) == BufBytes(r.heap, r.ret)

\* The bytes of the MAC compute(d) returns on the instance m of heap h.
MacOf(h, m, d) == MacBytes(HMAC_compute(h, m, d, blockSize))

\* compute(y) on the instance returns what it returns on the instance fresh.
SameMacAs(fresh) ==
  \A y \in HmacOperands :
    MacOf(heap, hmac, y) = MacOf(fresh.heap, fresh.this, y)

\* C12: after every compute the hasher holds the state of a reset hasher
\* that was fed exactly innerKey, with nothing pending, and a following
\* compute(y) returns what it returns on a fresh instance of the same key.
HmacReuse ==
  pc = "computed" =>
    /\ hmac.hasher.length = Len(pads.iKey)
    /\ SigBytes(heap, hmac.hasher.message) = 0
    /\ Words(heap, hmac.hasher.message) = <<>>
    /\ Words(heap, hmac.hasher.hash) = HashBlocksOf(HashInit, BlocksOf(pads.iKey, blockSize))
    /\ SameMacAs(HMAC_init(heap, hkey, blockSize))

\* A second compute on a used instance, after an update in between.
HmacReuseWitness ==
  /\ pc = "computed"
  /\ nOps = 3
  /\ Len(digests) = 2
  /\ digests[2].data # <<>>
  /\ digests[1].words # digests[2].words

\* The significant bytes of the key passed to create.
KeyBytes == IF hkey.kind = "string" THEN hkey.codes ELSE Bytes(orig.words, orig.sigBytes)

\* K': the key bytes, or their digest when they are longer than a block.
NormalisedKey ==
  IF Len(KeyBytes) > blockSize * 4 THEN WordsBytes(HashOf(KeyBytes, blockSize)) ELSE KeyBytes

\* K' followed by zero bytes up to the block size, each byte XOR c.
PadOf(c) == ArrayOf([i \in 1..(blockSize * 4) |-> Xor8(ByteOr0(NormalisedKey, i - 1), c, 8)])

\* C16: innerKey and outerKey have blockSizeBytes significant bytes and are
\* K' XOR 0x36.. and K' XOR 0x5c.., K' being the significant bytes of K (their
\* digest when longer than a block) followed by zero bytes; K is not modified.
HmacKeyPads ==
  /\ SigBytes(heap, hmac.iKey) = blockSize * 4
  /\ SigBytes(heap, hmac.oKey) = blockSize * 4
  /\ pads.iKey = PadOf(54)
  /\ pads.oKey = PadOf(92)
  /\ hkey.kind = "buffer" =>
       /\ Words(heap, hkey.ref) = orig.words
       /\ SigBytes(heap, hkey.ref) = orig.sigBytes

(***************************************************************************)
(* Decryption of a given ciphertext: a caller passes a buffer of its own   *)
(* choosing, well-formed or not, to decrypt.  plaintext is the buffer the  *)
(* call returned; it stays 0 if the call ends in an error.                 *)
(***************************************************************************)
DecryptGiven ==
  /\ pc = "start"
  /\ \E r \in {Cipher_decrypt(heap, message, key, iv, blockSize)} :
       heap' = r.heap /\ plaintext' = r.ret
  /\ ciphertext' = message
  /\ pre' = heap
  /\ pc' = "decryptedGiven"
  /\ UNCHANGED <<blockSize, orig, padVars, formatVars, pbeVars, hashVars, message, key, iv,
                 iv2, runs>>

NextGiven == DecryptGiven

SpecGiven == InitCipher /\ [][NextGiven]_vars

\* The last byte of the returned buffer's words at the length of the given
\* ciphertext, which is the padding count unpad reads.
LastByteDecrypted == ByteAt(Words(heap, plaintext), orig.sigBytes - 1)

Malformed ==
  \/ orig.sigBytes % (blockSize * 4) # 0
  \/ LastByteDecrypted < 1
  \/ LastByteDecrypted > blockSize * 4

\* C13: decrypt of a ciphertext whose length is not a multiple of
\* blockSizeBytes, or whose last byte after mode decryption is not in
\* [1, blockSizeBytes], ends in an error; it never returns a buffer.
MalformedRejected ==
  (pc = "decryptedGiven" /\ plaintext # 0) => ~Malformed

(***************************************************************************)
(* CBC mode on its own: a caller holds a buffer of whole blocks, a key     *)
(* and two IVs, and runs CBC.encrypt or CBC.decrypt, each time on a clone  *)
(* of the buffer, twice.  runs records the operation, the IV and the       *)
(* buffer of each run.                                                     *)
(***************************************************************************)
CbcWordVals == {<<1, 2, 3, 4>>, <<255, 255, 255, 255>>}

\* An IV of bs words, all of them w.
IvOf(w, bs) == ArrayOf([k \in 1..bs |-> w])

IvPairs == {<<<<0, 0, 0, 0>>, <<1, 2, 3, 4>>>>, <<<<0, 0, 0, 0>>, <<255, 255, 255, 255>>>>,
            <<<<1, 2, 3, 4>>, <<255, 255, 255, 255>>>>}

InitCBC ==
  /\ blockSize \in 1..MaxBlockSize
  /\ \E n \in 1..MaxWords : \E ws \in [1..(n * blockSize) -> CbcWordVals] :
     \E ivs \in IvPairs : \E kw \in KeyVals :
       /\ heap = WordArray_create(NewArr(
                   WordArray_create(NewArr(
                     WordArray_create(NewArr(
                       WordArray_create(NewArr(EmptyHeap, ArrayOf(ws)), 1),
                       <<kw>>), 2),
                     IvOf(ivs[1], blockSize)), 3),
                   IvOf(ivs[2], blockSize)), 4)
       /\ orig = [words |-> ArrayOf(ws), sigBytes |-> 4 * n * blockSize]
  /\ message = 1 /\ key = 2 /\ iv = 3 /\ iv2 = 4
  /\ ciphertext = 0 /\ plaintext = 0 /\ runs = <<>>
  /\ pre = EmptyHeap
  /\ data = 0
  /\ NoFormat /\ NoPBE /\ NoHash
  /\ pc = "start"

CbcEncrypt ==
  /\ Len(runs) < 2
  /\ \E v \in {iv, iv2} :
       /\ heap' = CBC_encrypt(clone(heap, message), Len(heap.objs) + 1,
                              Cipher_init(heap, key), blockSize, v)
       /\ runs' = Append(runs, [op |-> "encrypt", iv |-> v, ref |-> Len(heap.objs) + 1])
  /\ pre' = heap
  /\ pc' = "ran"
  /\ UNCHANGED <<blockSize, orig, padVars, formatVars, pbeVars, hashVars,
                 message, key, iv, iv2, ciphertext, plaintext>>

CbcDecrypt ==
  /\ Len(runs) < 2
  /\ \E v \in {iv, iv2} :
       /\ heap' = CBC_decrypt(clone(heap, message), Len(heap.objs) + 1,
                              Cipher_init(heap, key), blockSize, v)
       /\ runs' = Append(runs, [op |-> "decrypt", iv |-> v, ref |-> Len(heap.objs) + 1])
  /\ pre' = heap
  /\ pc' = "ran"
  /\ UNCHANGED <<blockSize, orig, padVars, formatVars, pbeVars, hashVars,
                 message, key, iv, iv2, ciphertext, plaintext>>

NextCBC == CbcEncrypt \/ CbcDecrypt

SpecCBC == InitCBC /\ [][NextCBC]_vars

\* C14: two CBC.decrypt runs on the same ciphertext and key, under any two
\* IVs, agree in every block except the first, and two CBC.encrypt runs on
\* the same message, key and IV give identical ciphertext.
CbcIvContained ==
  Len(runs) = 2 =>
    /\ (runs[1].op = "decrypt" /\ runs[2].op = "decrypt") =>
         /\ Len(Words(heap, runs[1].ref)) = Len(Words(heap, runs[2].ref))
         /\ \A k \in (blockSize + 1)..Len(Words(heap, runs[1].ref)) :
              Words(heap, runs[1].ref)[k] = Words(heap, runs[2].ref)[k]
    /\ (runs[1].op = "encrypt" /\ runs[2].op = "encrypt" /\ runs[1].iv = runs[2].iv) =>
         /\ Words(heap, runs[1].ref) = Words(heap, runs[2].ref)
         /\ SigBytes(heap, runs[1].ref) = SigBytes(heap, runs[2].ref)

\* Two decryptions of a ciphertext of more than one block under different
\* IVs, which differ in the first block.
CbcIvContainedWitness ==
  /\ Len(runs) = 2
  /\ runs[1].op = "decrypt" /\ runs[2].op = "decrypt"
  /\ runs[1].iv # runs[2].iv
  /\ Len(orig.words) > blockSize
  /\ Words(heap, runs[1].ref)[1] # Words(heap, runs[2].ref)[1]

\* D(C_i): the primitive's decryptBlock on a block of the original
\* ciphertext, under the caller's key.
DecryptedBlock(i) ==
  decryptBlock(NewArr(EmptyHeap, SubSeq(orig.words, i * blockSize + 1, (i + 1) * blockSize)),
               1, 0, Cipher_init(heap, key), blockSize).arrs[1]

\* Word j of what block i is XORed with: the IV for the first block, the
\* original previous block for the others.
ChainWord(r, i, j) ==
  IF i = 0 THEN Words(heap, r.iv)[j] ELSE orig.words[(i - 1) * blockSize + j]

\* C18: CBC.decrypt leaves block i as D(C_i) XOR C_(i-1), and block 0 as
\* D(C_0) XOR iv, every C being the block before the call, and does not
\* modify the IV buffer.
CbcDecryptChain ==
  \A n \in 1..Len(runs) :
    runs[n].op = "decrypt" =>
      /\ Len(Words(heap, runs[n].ref)) = Len(orig.words)
      /\ \A i \in 0..((Len(orig.words) \div blockSize) - 1) : \A j \in 1..blockSize :
           Words(heap, runs[n].ref)[i * blockSize + j]
             = BitXor(DecryptedBlock(i)[j], ChainWord(runs[n], i, j))
      /\ heap.objs[runs[n].iv] = pre.objs[runs[n].iv]
      /\ Words(heap, runs[n].iv) = Words(pre, runs[n].iv)

\* A decryption of a ciphertext of more than one block.
CbcDecryptChainWitness ==
  /\ Len(runs) = 1
  /\ runs[1].op = "decrypt"
  /\ Len(orig.words) > blockSize
  /\ Words(heap, runs[1].ref) # orig.words

(***************************************************************************)
(* Parsing of a given string: a caller passes the Base64 text of bytes of  *)
(* its own choosing to fromString.  orig holds the bytes the text decodes  *)
(* to: a prefix, which may be the magic, and up to 8 + 4 * MaxWords bytes. *)
(***************************************************************************)
ParsePrefixes == {<<>>, MagicBytes, <<83, 97, 108, 116, 101, 100, 95, 94>>}

\* n bytes, the i-th being a + i * b modulo 256.
BytePattern(n, a, b) == ArrayOf([i \in 1..n |-> (a + i * b) % 256])

InitParse ==
  /\ \E pf \in ParsePrefixes : \E n \in 0..(8 + 4 * MaxWords) :
     \E ab \in {<<0, 1>>, <<200, 17>>, <<255, 0>>} :
       orig = pf \o BytePattern(n, ab[1], ab[2])
  /\ str = Base64_toString(orig)
  /\ heap = EmptyHeap
  /\ params = 0 /\ parsed = 0
  /\ pre = EmptyHeap
  /\ data = 0 /\ blockSize = 0
  /\ NoCipher /\ NoPBE /\ NoHash
  /\ pc = "start"

ParseGiven ==
  /\ pc = "start"
  /\ heap' = OpenSSL_fromString(heap, str)
  /\ parsed' = LastParams(heap')
  /\ pre' = heap
  /\ pc' = "parsedGiven"
  /\ UNCHANGED <<blockSize, orig, padVars, cipherVars, pbeVars, hashVars, params, str>>

NextParse == ParseGiven

SpecParse == InitParse /\ [][NextParse]_vars

\* The decoded input begins with the two magic words.
GivenMagic == Len(orig) >= 8 /\ SubSeq(orig, 1, 8) = MagicBytes

\* The bytes of the input from position from + 1 on, at most n of them.
GivenBytes(from, n) ==
  ArrayOf([i \in 1..(IF Len(orig) - from < n THEN Len(orig) - from ELSE n) |-> orig[from + i]])

\* C17: for an input with the magic prefix, also one shorter than 16 bytes,
\* the salt is the 8 bytes after the magic and rawCiphertext the bytes after
\* the first 16, sigBytes being their number; for any other input there is
\* no salt and rawCiphertext is the whole input.
FromStringFields ==
  pc = "parsedGiven" =>
    IF GivenMagic
    THEN /\ Salted(parsed)
         /\ SigBytes(heap, SaltOf(parsed)) = 8
         /\ BufBytes(heap, SaltOf(parsed)) = GivenBytes(8, 8)
         /\ SigBytes(heap, RawOf(parsed)) = Len(GivenBytes(16, Len(orig)))
         /\ BufBytes(heap, RawOf(parsed)) = GivenBytes(16, Len(orig))
    ELSE /\ ~Salted(parsed)
         /\ SigBytes(heap, RawOf(parsed)) = Len(orig)
         /\ BufBytes(heap, RawOf(parsed)) = orig

(***************************************************************************)
(* Appending: a caller holds two buffers, each over an array of its own,   *)
(* and calls concat on the first with the second as argument.  orig holds  *)
(* both buffers as they were before the call.                              *)
(***************************************************************************)
\* The buffer passed to concat.
wordArray == 2

\* The arrays of the argument: no word of them is zero, so that every byte
\* appended is visible.
ThatWordSeqs(n) == UNION {[1..k -> WordVals \ {Word0}] : k \in 0..n}

InitConcat ==
  /\ \E ws \in WordSeqs(MaxWords) : \E sb \in 0..(Len(ws) * 4) :
     \E ws2 \in ThatWordSeqs(MaxWords) : \E sb2 \in 0..(Len(ws2) * 4) :
       /\ heap = WordArray_init(NewArr(WordArray_init(NewArr(EmptyHeap, ws), 1, sb), ws2), 2, sb2)
       /\ orig = [this |-> [words |-> ws, sigBytes |-> sb],
                  that |-> [words |-> ws2, sigBytes |-> sb2]]
  /\ data = 1
  /\ blockSize = 0
  /\ pc = "start"
  /\ pre = EmptyHeap
  /\ NoCipher /\ NoFormat /\ NoPBE /\ NoHash

Concat ==
  /\ pc = "start"
  /\ heap' = concat(heap, data, wordArray)
  /\ pre' = heap
  /\ pc' = "concatenated"
  /\ UNCHANGED <<data, blockSize, orig, cipherVars, formatVars, pbeVars, hashVars>>

NextConcat == Concat

SpecConcat == InitConcat /\ [][NextConcat]_vars

\* The significant bytes of both buffers as they were before the call.
ConcatBytes ==
  Bytes(orig.this.words, orig.this.sigBytes) \o Bytes(orig.that.words, orig.that.sigBytes)

\* C19: after a.concat(b), a holds a's significant bytes followed by b's,
\* sigBytes is the sum, words.length is ceil(sum / 4), no bit that lay
\* beyond a's significant bytes is left in a's words, and b is as it was.
ConcatAppends ==
  pc = "concatenated" =>
    /\ SigBytes(heap, data) = orig.this.sigBytes + orig.that.sigBytes
    /\ BufBytes(heap, data) = ConcatBytes
    /\ Len(Words(heap, data)) = CeilDiv4(orig.this.sigBytes + orig.that.sigBytes)
    /\ Words(heap, data) = BytesToWords(ConcatBytes)
    /\ Words(heap, wordArray) = orig.that.words
    /\ SigBytes(heap, wordArray) = orig.that.sigBytes

\* Neither buffer is word-aligned, and both have set bits beyond their
\* significant bytes.
ConcatAppendsWitness ==
  /\ pc = "concatenated"
  /\ orig.this.sigBytes = 1 /\ orig.this.words = <<<<255, 255, 255, 255>>, <<1, 2, 3, 4>>>>
  /\ orig.that.sigBytes = 5 /\ orig.that.words = <<<<1, 2, 3, 4>>, <<255, 255, 255, 255>>>>
  /\ Words(heap, data) = <<<<255, 1, 2, 3>>, <<4, 255, 0, 0>>>>

(***************************************************************************)
(* Buffers under any sequence of operations: a caller holds buffers, each  *)
(* over an array of its own, and a hasher, and applies up to MaxOps - 1    *)
(* operations to buffers it holds.  The caller holds every buffer of the   *)
(* heap but the hasher's _message and _hash.                               *)
(*                                                                         *)
(* clamp on a buffer whose sigBytes is negative (PKCS5 unpad and           *)
(* fromString can leave one) writes words[sigBytes >>> 2], an index near   *)
(* 2^30, and then throws RangeError at words.length = Math.ceil(sigBytes   *)
(* / 4).  The call, and the concat or pad that made it, ends there with    *)
(* sigBytes as it was; the heap is kept as it was, the lengthening of the  *)
(* array by holes is not kept.                                             *)
(***************************************************************************)
Held == DOMAIN heap.objs \ {hasher.message, hasher.hash}

clampThrows(h, o) == SigBytes(h, o) < 0

\* The buffers a caller starts with: word-aligned or not, with set bits or
\* whole words beyond sigBytes, and the magic prefix alone.
BufInputs ==
  {[words |-> <<<<1, 2, 3, 4>>, <<255, 255, 255, 255>>>>, sigBytes |-> 5],
   [words |-> <<<<255, 255, 255, 255>>>>, sigBytes |-> 3],
   [words |-> <<Magic0, Magic1>>, sigBytes |-> 8]}

\* The words Math.random yields, and the password of the KDF.
BufRand == <<<<200, 1, 2, 3>>, <<4, 5, 6, 250>>>>
BufPassword == <<112, 119>>

InitBuffers ==
  /\ \E b \in BufInputs : \E r \in {Hash_create(EmptyHeap)} :
       /\ heap = WordArray_init(NewArr(r.heap, b.words), Len(r.heap.arrs) + 1, b.sigBytes)
       /\ hasher = r.this
       /\ orig = b
  /\ blockSize \in {1, MaxBlockSize}
  /\ nOps = 0
  /\ data = 0
  /\ pc = "start"
  /\ pre = EmptyHeap
  /\ NoCipher /\ NoFormat /\ NoPBE
  /\ digests = <<>> /\ hmac = NoHmac /\ hkey = [kind |-> "none"] /\ pads = NoPads
  /\ fed = <<>> /\ mark = 0

\* What every operation on buffers shares: heap and hasher are its outcome.
BufDone(name) ==
  /\ nOps < MaxOps - 1
  /\ nOps' = nOps + 1
  /\ pc' = name
  /\ pre' = heap
  /\ UNCHANGED <<data, blockSize, orig, cipherVars, formatVars, pbeVars,
                 digests, hmac, hkey, pads, fed, mark>>

\* WordArray.create(words) on a new array
BufCreate ==
  /\ BufDone("create")
  /\ \E ws \in WordSeqs(1) : heap' = WordArray_create(NewArr(heap, ws), Len(heap.arrs) + 1)
  /\ hasher' = hasher

BufConcat ==
  /\ BufDone("concat")
  /\ \E x \in Held : \E y \in Held :
       heap' = IF clampThrows(heap, x) THEN heap ELSE concat(heap, x, y)
  /\ hasher' = hasher

BufClamp ==
  /\ BufDone("clamp")
  /\ \E x \in Held : heap' = IF clampThrows(heap, x) THEN heap ELSE clamp(heap, x)
  /\ hasher' = hasher

BufClone ==
  /\ BufDone("clone")
  /\ \E x \in Held : heap' = clone(heap, x)
  /\ hasher' = hasher

BufRandom ==
  /\ BufDone("random")
  /\ \E nBytes \in {0, 3, 5, 4 * Len(BufRand)} : heap' = WordArray_random(heap, nBytes, BufRand)
  /\ hasher' = hasher

BufPad ==
  /\ BufDone("pad")
  /\ \E x \in Held :
       heap' = IF clampThrows(heap, x) THEN heap ELSE PKCS5_pad(heap, x, blockSize)
  /\ hasher' = hasher

BufUnpad ==
  /\ BufDone("unpad")
  /\ \E x \in Held : heap' = PKCS5_unpad(heap, x)
  /\ hasher' = hasher

\* hasher.update(y): concat onto _message, then _hashBlocks
BufUpdate ==
  /\ BufDone("update")
  /\ \E y \in Held : \E r \in {Hash_update(heap, hasher, [kind |-> "buffer", ref |-> y], blockSize)} :
       /\ heap' = r.heap
       /\ hasher' = r.this

\* OpenSSL.fromString of the Base64 text of a held buffer
BufFromString ==
  /\ BufDone("fromString")
  /\ \E x \in Held : heap' = OpenSSL_fromString(heap, Base64_toString(BufBytes(heap, x)))
  /\ hasher' = hasher

\* OpenSSLKdf.execute with a salt the caller holds, or without one
BufKdf ==
  /\ BufDone("kdf")
  /\ \E salt \in Held \cup {0} : heap' = KDF_execute(heap, BufPassword, salt, BufRand)
  /\ hasher' = hasher

\* HMAC.create(hasher, key) with a key the caller holds; the block size of
\* the hasher is at least the size of its digest.
BufHmac ==
  /\ BufDone("hmac")
  /\ \E k \in Held : \E r \in {HMAC_init(heap, [kind |-> "buffer", ref |-> k], blockSize + 1)} :
       heap' = r.heap
  /\ hasher' = hasher

NextBuffers ==
  \/ BufCreate \/ BufConcat \/ BufClamp \/ BufClone \/ BufRandom \/ BufPad \/ BufUnpad
  \/ BufUpdate \/ BufFromString \/ BufKdf \/ BufHmac

SpecBuffers == InitBuffers /\ [][NextBuffers]_vars

\* C20: every buffer of the heap satisfies sigBytes <= words.length * 4.
BufferLengthInvariant ==
  \A o \in DOMAIN heap.objs : SigBytes(heap, o) <= 4 * Len(Words(heap, o))

\* Two operations have run, the second one a removal of hashed blocks that
\* left bytes pending in the hasher's message.
BufferLengthInvariantWitness ==
  /\ pc = "update" /\ nOps = 2
  /\ Len(heap.hashed) > 0
  /\ SigBytes(heap, hasher.message) % 4 # 0
====
